---- MODULE Spec2Model ----
(***************************************************************************)
(* A model of cluster_plan.py: GlusterClusterPlan (load_from_json,         *)
(* validate, create, _get_plan_id, _disk_size_in_mb), DictValidator,       *)
(* LinodeStaticInfo and the two brick provisioners.                        *)
(*                                                                         *)
(* Python strings that the code parses are sequences of one-character      *)
(* strings, so that split, strip, re.match and int() are computed.  JSON   *)
(* values are tagged records: [t |-> "int", i |-> n], [t |-> "str",        *)
(* s |-> chars], and Missing for an absent key.                            *)
(***************************************************************************)
EXTENDS Integers, Sequences, FiniteSets, TLC

(***************************************************************************)
(* Bounds of the model.                                                    *)
(***************************************************************************)
MaxNodes == 2
MaxCount == 2
MaxBricks == 2
MaxPlans == 2

(***************************************************************************)
(* Python string primitives.                                               *)
(***************************************************************************)
Digits == <<"0", "1", "2", "3", "4", "5", "6", "7", "8", "9">>

IsDigit(c) == \E k \in 1..10 : Digits[k] = c

DigitVal(c) == (CHOOSE k \in 1..10 : Digits[k] = c) - 1

IsSpace(c) == c = " "

Missing == [t |-> "missing"]

JInt(n) == [t |-> "int", i |-> n]

JStr(s) == [t |-> "str", s |-> s]

\* s[from..] as a sequence
Drop(s, n) == SubSeq(s, n + 1, Len(s))

Take(s, n) == SubSeq(s, 1, n)

\* str.lstrip / str.rstrip / str.strip
RECURSIVE LStrip(_)
LStrip(s) == IF s # <<>> /\ IsSpace(Head(s)) THEN LStrip(Tail(s)) ELSE s

RECURSIVE RStrip(_)
RStrip(s) == IF s # <<>> /\ IsSpace(s[Len(s)]) THEN RStrip(Take(s, Len(s) - 1)) ELSE s

Strip(s) == RStrip(LStrip(s))

\* str.split(sep) for a one-character separator: always at least one token
RECURSIVE SplitFrom(_, _, _)
SplitFrom(s, sep, done) ==
    IF s = <<>> THEN done
    ELSE SplitFrom(Tail(s), sep,
            IF Head(s) = sep THEN Append(done, <<>>)
            ELSE [done EXCEPT ![Len(done)] = Append(@, Head(s))])

Split(s, sep) == SplitFrom(s, sep, <<<<>>>>)

\* length of the longest prefix of s made of digits: the greedy [0-9]* of re.match
RECURSIVE DigitPrefixLen(_)
DigitPrefixLen(s) ==
    IF s # <<>> /\ IsDigit(Head(s)) THEN 1 + DigitPrefixLen(Tail(s)) ELSE 0

\* value of a non-empty sequence of decimal digits
RECURSIVE DigitsValue(_)
DigitsValue(s) ==
    IF s = <<>> THEN 0
    ELSE 10 * DigitsValue(Take(s, Len(s) - 1)) + DigitVal(s[Len(s)])

\* int(s) of Python 2 on a string: surrounding whitespace, an optional sign, digits
PyIntBody(negative, body) ==
    IF body # <<>> /\ DigitPrefixLen(body) = Len(body)
    THEN [ok |-> TRUE, v |-> IF negative THEN 0 - DigitsValue(body) ELSE DigitsValue(body)]
    ELSE [ok |-> FALSE, v |-> 0]

PyIntStripped(u) ==
    IF u # <<>> /\ Head(u) \in {"+", "-"} THEN PyIntBody(Head(u) = "-", Tail(u))
    ELSE PyIntBody(FALSE, u)

PyInt(s) == PyIntStripped(Strip(s))

(***************************************************************************)
(* LinodeStaticInfo: the provider metadata, loaded once before any plan is *)
(* processed.  Two instance classes and one datacenter.                    *)
(***************************************************************************)
VARIABLE plans  \* cls.plans, set once by LinodeStaticInfo.load()

NoId == [some |-> FALSE]

SomeId(v) == [some |-> TRUE, v |-> v]

\* what lin.get_plans() returns: the catalog of the provider
get_plans ==
    << [PLANID |-> 1, LABEL |-> <<"A">>, DISK |-> 24],
       [PLANID |-> 2, LABEL |-> <<"B">>, DISK |-> 48] >>

DcNewark == <<"n", "e", "w", "a", "r", "k">>

DcMars == <<"m", "a", "r", "s">>

\* cls.dcs, reduced to the names lin.get_datacenter() resolves
dcs == [n \in {DcNewark} |-> 6]

\* cls.ids
ids == {plans[k].PLANID : k \in 1..Len(plans)}

\* the id of the last catalog entry among hits: a later dict assignment overwrites
LastId(hits) ==
    IF hits = {} THEN NoId
    ELSE SomeId(plans[CHOOSE k \in hits : \A j \in hits : j <= k].PLANID)

is_valid_id(id) == id \in ids

id_from_label(label) == LastId({k \in 1..Len(plans) : plans[k].LABEL = label})

id_from_storage(storage) == LastId({k \in 1..Len(plans) : plans[k].DISK = storage})

dc_id(datacenter) == IF datacenter \in DOMAIN dcs THEN SomeId(dcs[datacenter]) ELSE NoId

(***************************************************************************)
(* GlusterClusterPlan._get_plan_id.  The result is the returned id, or the *)
(* exception the call ends with.                                           *)
(***************************************************************************)
Returned(v) == [exc |-> "none", v |-> v, msg |-> ""]

Raised(exc, msg) == [exc |-> exc, v |-> 0, msg |-> msg]

K_id == <<"i", "d">>

K_label == <<"l", "a", "b", "e", "l">>

K_disk == <<"d", "i", "s", "k">>

U_GB == <<"G", "B">>

\* lines 316-318, n being int(tokens[1])
PlanIdOfId(n) ==
    IF ~n.ok THEN Raised("ValueError", "invalid literal for int()")
    ELSE IF ~is_valid_id(n.v) THEN Raised("ValueError", "Invalid plan id")
    ELSE Returned(n.v)

\* lines 321-324, r being id_from_label(tokens[1])
PlanIdOfLabel(r) ==
    IF ~r.some THEN Raised("ValueError", "Invalid plan label") ELSE Returned(r.v)

\* lines 328-341: the match of '([0-9]+)(.*)' takes the n leading digits of value
PlanIdOfStorage(units, r) ==
    IF units # <<>> /\ units # U_GB THEN Raised("ValueError", "Invalid plan disk units")
    ELSE IF ~r.some THEN Raised("ValueError", "Invalid plan disk")
    ELSE Returned(r.v)

PlanIdOfDisk(value, n) ==
    IF n = 0 THEN Raised("ValueError", "Invalid plan disk")
    ELSE PlanIdOfStorage(Strip(Drop(value, n)), id_from_storage(DigitsValue(Take(value, n))))

\* lines 315-344
GetPlanIdBranch(kind, value) ==
    IF kind = K_id THEN PlanIdOfId(PyInt(value))
    ELSE IF kind = K_label THEN PlanIdOfLabel(id_from_label(value))
    ELSE IF kind = K_disk THEN PlanIdOfDisk(value, DigitPrefixLen(value))
    \* no branch assigned plan_id: 'return plan_id' reads an unbound local
    ELSE Raised("UnboundLocalError", "local variable 'plan_id' referenced before assignment")

\* lines 308-313, tokens being plan.split(':')
GetPlanIdTokens(tokens) ==
    IF Len(tokens) # 2 THEN Raised("ValueError", "Invalid plan")
    ELSE GetPlanIdBranch(Strip(tokens[1]), Strip(tokens[2]))

_get_plan_id(plan) == GetPlanIdTokens(Split(plan, ":"))

(***************************************************************************)
(* GlusterClusterPlan._disk_size_in_mb: re.match at the start of the       *)
(* string of digits, an optional point, digits, whitespace, a unit letter  *)
(* among mMgGtT and b or B; then float(val) scaled by the unit and         *)
(* truncated by int().                                                     *)
(***************************************************************************)
RECURSIVE Pow10(_)
Pow10(k) == IF k = 0 THEN 1 ELSE 10 * Pow10(k - 1)

\* str.lower() of the unit's first letter
UnitOf(c) ==
    IF c \in {"m", "M"} THEN "mb" ELSE IF c \in {"g", "G"} THEN "gb"
    ELSE IF c \in {"t", "T"} THEN "tb" ELSE "none"

UnitFactor(unit) ==
    IF unit = "mb" THEN 1 ELSE IF unit = "gb" THEN 1024 ELSE 1024 * 1024

BadSize == Raised("ValueError", "Invalid disk size. Should be '<number> MB|GB|TB'")

\* lines 363-379: val = a.b is the exact fraction num / 10^nb and unit the letter matched
SizeValue(num, nb, unit) == Returned((num * UnitFactor(UnitOf(unit))) \div Pow10(nb))

\* the rest of the match after the number: whitespace, the unit letter, b or B
SizeUnit(rest, empty, unparsable, num, nb) ==
    IF ~(Len(rest) >= 2 /\ UnitOf(rest[1]) # "none" /\ rest[2] \in {"b", "B"}) THEN BadSize
    ELSE IF empty THEN BadSize
    ELSE IF unparsable THEN Raised("ValueError", "could not convert string to float")
    ELSE SizeValue(num, nb, rest[1])

\* the digits after the point: a are the digits before it, s2 what follows the point
SizeFraction(a, dot, s2, nb) ==
    SizeUnit(LStrip(Drop(s2, nb)), a = <<>> /\ nb = 0 /\ ~dot, a = <<>> /\ nb = 0,
             DigitsValue(a) * Pow10(nb) + DigitsValue(Take(s2, nb)), nb)

SizePoint(a, dot, s2) == SizeFraction(a, dot, s2, DigitPrefixLen(s2))

SizeDigits(a, s1) ==
    IF s1 # <<>> /\ Head(s1) = "." THEN SizePoint(a, TRUE, Tail(s1))
    ELSE SizePoint(a, FALSE, s1)

SizeString(s, na) == SizeDigits(Take(s, na), Drop(s, na))

_disk_size_in_mb(size) ==
    IF size.t = "int" THEN Returned(size.i) ELSE SizeString(size.s, DigitPrefixLen(size.s))

(***************************************************************************)
(* create(), lines 102-157: the storage plans and the brick mounts of      *)
(* every storage entry, keyed by the resolved plan id.                     *)
(***************************************************************************)
block_device_names == <<"sda", "sdb", "sdc", "sdd", "sde", "sdf", "sdg", "sdh">>

S_auto == <<"a", "u", "t", "o">>

EmptyDict == [x \in {} |-> 0]

\* d[k] = v on a dict
DictSet(d, k, v) == [x \in DOMAIN d \cup {k} |-> IF x = k THEN v ELSE d[x]]

\* lines 124-134: the swap disk's size
SwapInt(n) ==
    IF n.ok THEN [exc |-> "none", v |-> JInt(n.v)] ELSE [exc |-> "ValueError", v |-> JInt(0)]

SwapSize(size) ==
    IF size.t = "int" THEN [exc |-> "none", v |-> JInt(_disk_size_in_mb(size).v)]
    ELSE IF size.s # S_auto THEN SwapInt(PyInt(size.s))
    ELSE [exc |-> "none", v |-> size]

\* lines 141-152 for one brick whose size is r, the next free device slot being
\* acc.dev_idx
BrickStep(brick, r, acc) ==
    IF r.exc # "none" THEN [acc EXCEPT !.exc = r.exc]
    ELSE IF acc.dev_idx >= Len(block_device_names) THEN [acc EXCEPT !.exc = "IndexError"]
    ELSE [acc EXCEPT
            !.others = Append(@, [label |-> brick.label, disk_size |-> r.v,
                                  type |-> brick.type]),
            !.mounts = Append(@, [device |-> <<"/dev/", block_device_names[acc.dev_idx + 1]>>,
                                  mount |-> brick.mount, fs |-> brick.type]),
            !.dev_idx = @ + 1]

\* lines 140-152: bricks k.. of one storage entry
RECURSIVE BrickLoop(_, _, _)
BrickLoop(bricks, k, acc) ==
    IF k > Len(bricks) \/ acc.exc # "none" THEN acc
    ELSE BrickLoop(bricks, k + 1, BrickStep(bricks[k], _disk_size_in_mb(bricks[k].size), acc))

\* lines 136-157: the disk plan and the brick mounts, boot and swap being sized
DiskPlanBricks(disks, boot, swap, br) ==
    [exc |-> br.exc,
     disk_plan |->
        [boot |-> IF disks.boot # Missing THEN [disk_size |-> boot.v] ELSE Missing,
         swap |-> IF disks.swap # Missing THEN [disk_size |-> swap.v] ELSE Missing,
         others |-> IF disks.bricks # <<>> THEN [list |-> br.others] ELSE Missing],
     mounts |-> br.mounts]

\* a layout whose bricks start at the first device whatever boot and swap take
DiskPlanSizedFromFirst(disks, boot, swap) ==
    DiskPlanBricks(disks, boot, swap,
        BrickLoop(disks.bricks, 1,
            [exc |-> IF boot.exc # "none" THEN boot.exc ELSE swap.exc,
             others |-> <<>>, mounts |-> <<>>, dev_idx |-> 0]))

\* lines 116-135: boot and swap take the first device slots
DiskPlanSized(disks, boot, swap) ==
    DiskPlanBricks(disks, boot, swap,
        BrickLoop(disks.bricks, 1,
            [exc |-> IF boot.exc # "none" THEN boot.exc ELSE swap.exc,
             others |-> <<>>, mounts |-> <<>>,
             dev_idx |-> (IF disks.boot # Missing THEN 1 ELSE 0)
                         + (IF disks.swap # Missing THEN 1 ELSE 0)]))

\* lines 107-157 for one storage entry's disks
DiskPlan(disks) ==
    DiskPlanSized(disks,
        IF disks.boot # Missing THEN _disk_size_in_mb(disks.boot.size) ELSE Returned(0),
        IF disks.swap # Missing THEN SwapSize(disks.swap.size)
        ELSE [exc |-> "none", v |-> JInt(0)])

\* lines 106-157 for one storage entry, id being _get_plan_id(item['plan'])
StorageStep(id, dp, acc) ==
    IF id.exc # "none" THEN [acc EXCEPT !.exc = id.exc]
    ELSE IF dp.exc # "none" THEN [acc EXCEPT !.exc = dp.exc]
    ELSE [acc EXCEPT
            !.storage_plans = DictSet(@, id.v, dp.disk_plan),
            !.brick_mounts = DictSet(@, id.v, dp.mounts)]

\* lines 104-157: storage entries k.. of the plan
RECURSIVE StorageLoop(_, _, _)
StorageLoop(storage, k, acc) ==
    IF k > Len(storage) \/ acc.exc # "none" THEN acc
    ELSE StorageLoop(storage, k + 1,
            StorageStep(_get_plan_id(storage[k].plan), DiskPlan(storage[k].disks), acc))

StoragePlans(storage) ==
    StorageLoop(storage, 1,
        [exc |-> "none", storage_plans |-> EmptyDict, brick_mounts |-> EmptyDict])

(***************************************************************************)
(* DictValidator over the plan document d.  dp.get(d, key) raises KeyError *)
(* for an absent key: Lookup gives Missing then.  Each assert_* gives the  *)
(* boolean it returns and the error list it leaves.                        *)
(***************************************************************************)
Err(e, key, pos) == [e |-> e, key |-> key, pos |-> pos]

Lookup(d, key) ==
    IF key = "schema-version" THEN d.sv
    ELSE IF key = "cluster-type" THEN d.ct
    ELSE IF key = "cluster-plan" THEN (IF d.cp = Missing THEN Missing ELSE [t |-> "dict"])
    ELSE IF d.cp = Missing THEN Missing
    ELSE IF key = "cluster-plan/datacenter" THEN d.cp.datacenter
    ELSE IF key = "cluster-plan/nodes"
        THEN (IF d.cp.nodes = Missing THEN Missing ELSE [t |-> "list"])
    ELSE Missing

\* a validator that reports valid whatever was recorded
is_valid_always(errors) == TRUE

is_valid(errors) == Len(errors) = 0

assert_exists(d, errors, key) ==
    IF Lookup(d, key) = Missing
    THEN [ok |-> FALSE, errors |-> Append(errors, Err("Missing key", key, 0))]
    ELSE [ok |-> TRUE, errors |-> errors]

assert_int(d, errors, key) ==
    IF Lookup(d, key) = Missing
    THEN [ok |-> FALSE, errors |-> Append(errors, Err("Missing key", key, 0))]
    ELSE IF Lookup(d, key).t # "int"
    THEN [ok |-> FALSE, errors |-> Append(errors, Err("Expecting integer value for", key, 0))]
    ELSE [ok |-> TRUE, errors |-> errors]

assert_value(d, errors, key, expected_val) ==
    IF Lookup(d, key) = Missing
    THEN [ok |-> FALSE, errors |-> Append(errors, Err("Missing key", key, 0))]
    ELSE IF Lookup(d, key) # expected_val
    THEN [ok |-> FALSE, errors |-> Append(errors, Err("Expected value for", key, 0))]
    ELSE [ok |-> TRUE, errors |-> errors]

add_error(errors, e) == Append(errors, e)

(***************************************************************************)
(* GlusterClusterPlan.validate.                                            *)
(***************************************************************************)
S_gluster == <<"g", "l", "u", "s", "t", "e", "r">>

NoErrors == [some |-> FALSE]

SomeErrors(errors) == [some |-> TRUE, list |-> errors]

\* lines 279-283: the count checks of one node entry; the messages keep their
\* '%d' unformatted, so they carry no position
CountErrors(item, errors) ==
    LET count == IF item.count = Missing THEN JInt(0) ELSE item.count
        e1 == IF count.t # "int"
              THEN add_error(errors, Err("count should be an integer", "", 0)) ELSE errors
    IN  IF count = JInt(0) THEN add_error(e1, Err("count is missing or 0", "", 0)) ELSE e1

\* a loop body that resolves the selector and does not keep the result
NodeStepUncached(item, i, r, acc) ==
    IF item.plan = Missing
    THEN [acc EXCEPT
            !.errors = CountErrors(item, add_error(@, Err("'plan' missing", "", i))),
            !.examined = i]
    ELSE IF r.exc = "none"
    THEN [acc EXCEPT !.errors = CountErrors(item, @), !.examined = i]
    ELSE IF r.exc = "ValueError"
    THEN [acc EXCEPT
            !.errors = CountErrors(item, add_error(@, Err(r.msg, "", i))),
            !.examined = i]
    ELSE [acc EXCEPT !.exc = r.exc]

\* lines 267-283: the loop body for node entry i, r being what _get_plan_id(plan)
\* gave; acc is dv.errors and the cache so far. An exception other than ValueError
\* leaves the loop.
NodeStep(item, i, r, acc) ==
    IF item.plan = Missing
    THEN [acc EXCEPT
            !.errors = CountErrors(item, add_error(@, Err("'plan' missing", "", i))),
            !.examined = i]
    ELSE IF r.exc = "none"
    THEN [acc EXCEPT
            !.errors = CountErrors(item, @),
            !.cache = DictSet(@, item.plan.s, r.v),
            !.examined = i]
    ELSE IF r.exc = "ValueError"
    THEN [acc EXCEPT
            !.errors = CountErrors(item, add_error(@, Err(r.msg, "", i))),
            !.examined = i]
    ELSE [acc EXCEPT !.exc = r.exc]

\* lines 266-283: node entries i..
RECURSIVE NodeLoop(_, _, _)
NodeLoop(nodes, i, acc) ==
    IF i > Len(nodes) \/ acc.exc # "none" THEN acc
    ELSE NodeLoop(nodes, i + 1,
            NodeStep(nodes[i], i,
                IF nodes[i].plan = Missing THEN Returned(0)
                ELSE _get_plan_id(nodes[i].plan.s),
                acc))

\* What one call of validate() does to a plan object whose plan is d: how it ends
\* (exc), the tuple it returns, dv.errors at that point, the cache and the validated
\* flag it leaves, and how many node entries it went through.
\* lines 248, 258, 264: return (False, dv.errors)
ValidateEarly(errors, cache, was_validated) ==
    [exc |-> "none", valid |-> FALSE, errors |-> SomeErrors(errors), dv |-> errors,
     cache |-> cache, validated |-> was_validated, examined |-> 0]

\* lines 292-293, or the exception that left the loop
ValidateEnd(loop, was_validated) ==
    IF loop.exc # "none"
    THEN [exc |-> loop.exc, valid |-> FALSE, errors |-> NoErrors, dv |-> loop.errors,
          cache |-> loop.cache, validated |-> was_validated, examined |-> loop.examined]
    ELSE [exc |-> "none", valid |-> TRUE, errors |-> NoErrors, dv |-> loop.errors,
          cache |-> loop.cache, validated |-> is_valid(loop.errors),
          examined |-> loop.examined]

\* lines 256-283, a5 being dv.assert_exists('cluster-plan/nodes')
ValidateNodes(d, a5, cache, was_validated) ==
    IF ~a5.ok THEN ValidateEarly(a5.errors, cache, was_validated)
    ELSE IF Len(d.cp.nodes.list) = 0
    THEN ValidateEarly(add_error(a5.errors, Err("'nodes' is empty", "", 0)), cache,
                       was_validated)
    ELSE ValidateEnd(
            NodeLoop(d.cp.nodes.list, 1,
                [exc |-> "none", errors |-> a5.errors, cache |-> cache, examined |-> 0]),
            was_validated)

\* lines 250-256, a4 being dv.assert_exists('cluster-plan/datacenter')
ValidateDatacenter(d, a4, cache, was_validated) ==
    ValidateNodes(d,
        assert_exists(d,
            IF a4.ok /\ ~dc_id(d.cp.datacenter.s).some
            THEN add_error(a4.errors, Err("Invalid datacenter", "", 0))
            ELSE a4.errors,
            "cluster-plan/nodes"),
        cache, was_validated)

\* lines 246-250, a3 being dv.assert_exists('cluster-plan')
ValidateRoot(d, a3, cache, was_validated) ==
    IF ~a3.ok THEN ValidateEarly(a3.errors, cache, was_validated)
    ELSE ValidateDatacenter(d, assert_exists(d, a3.errors, "cluster-plan/datacenter"),
                            cache, was_validated)

\* lines 241-246
validate(d, cache, was_validated) ==
    ValidateRoot(d,
        assert_exists(d,
            assert_value(d, assert_int(d, <<>>, "schema-version").errors,
                         "cluster-type", JStr(S_gluster)).errors,
            "cluster-plan"),
        cache, was_validated)

(***************************************************************************)
(* Plan documents.                                                         *)
(***************************************************************************)
Sel_id1 == <<"i", "d", ":", "1">>

Sel_labelA == <<"l", "a", "b", "e", "l", ":", "A">>

Sel_labelB == <<"l", "a", "b", "e", "l", ":", "B">>

Sel_disk48GB == <<"d", "i", "s", "k", ":", "4", "8", "G", "B">>

Sel_disk48sGB == <<"d", "i", "s", "k", ":", "4", "8", " ", "G", "B">>

Sel_id9 == <<"i", "d", ":", "9">>

Sel_idx == <<"i", "d", ":", "x">>

Sel_labelZ == <<"l", "a", "b", "e", "l", ":", "Z">>

Sel_diskGB == <<"d", "i", "s", "k", ":", "G", "B">>

Sel_disk48MB == <<"d", "i", "s", "k", ":", "4", "8", "M", "B">>

Sel_disk50GB == <<"d", "i", "s", "k", ":", "5", "0", "G", "B">>

Sel_foo1 == <<"f", "o", "o", ":", "1">>

Sel_id1NoColon == <<"i", "d", "1">>

Sel_id1Colon2 == <<"i", "d", ":", "1", ":", "2">>

Size_20GB == JStr(<<"2", "0", "G", "B">>)

Size_100GB == JStr(<<"1", "0", "0", " ", "g", "b">>)

Size_GB == JStr(<<"G", "B">>)

Fs_xfs == <<"x", "f", "s">>

Fs_ext4 == <<"e", "x", "t", "4">>

Fs_EXT3 == <<"E", "X", "T", "3">>

Brick(label, size, type, mount) ==
    [label |-> label, size |-> size, type |-> type, mount |-> mount]

Disks(boot, swap, bricks) == [boot |-> boot, swap |-> swap, bricks |-> bricks]

StorageSpec(plan, disks) == [plan |-> plan, disks |-> disks]

NodeSpec(plan, count) == [plan |-> plan, count |-> count]

Document(sv, ct, cp) == [sv |-> sv, ct |-> ct, cp |-> cp]

ClusterPlan(datacenter, storage, nodes) ==
    [t |-> "dict", datacenter |-> datacenter, storage |-> storage, nodes |-> nodes]

List(l) == [t |-> "list", list |-> l]

SeqsUpTo(S, n) == UNION {[1..k -> S] : k \in 0..n}

(***************************************************************************)
(* The plan files the model loads.  Files: plans for the whole life cycle  *)
(* (load, validate, create).  ValidateFiles: a wider range of headers and  *)
(* node entries, for validate() alone.                                     *)
(***************************************************************************)
Malformed == [t |-> "malformed"]

BootDisk == [size |-> Size_20GB]

SwapAuto == [size |-> JStr(S_auto)]

BrickLists == SeqsUpTo({Brick("b", Size_100GB, Fs_xfs, "/data"),
                        Brick("b", Size_100GB, Fs_ext4, "/data")}, MaxBricks)

StorageItems ==
    {StorageSpec(sel, Disks(BootDisk, SwapAuto, b)) :
        sel \in {Sel_id1, Sel_labelB}, b \in BrickLists}

\* one entry per instance class, xfs bricks for class 1 and ext4 bricks for class 2
GoodStorage ==
    << StorageSpec(Sel_id1,
          Disks(BootDisk, SwapAuto, <<Brick("b", Size_100GB, Fs_xfs, "/data")>>)),
       StorageSpec(Sel_disk48GB,
          Disks(Missing, Missing, <<Brick("b", Size_100GB, Fs_ext4, "/data")>>)) >>

\* labels and mount points of the bricks of one storage entry, in document order
BrickNames ==
    << [label |-> "b1", mount |-> "/data1"], [label |-> "b2", mount |-> "/data2"],
       [label |-> "b3", mount |-> "/data3"], [label |-> "b4", mount |-> "/data4"],
       [label |-> "b5", mount |-> "/data5"], [label |-> "b6", mount |-> "/data6"],
       [label |-> "b7", mount |-> "/data7"] >>

\* one storage entry of nine logical disks: boot, swap and seven bricks
OverfullStorage ==
    << StorageSpec(Sel_id1,
          Disks(BootDisk, SwapAuto,
                [k \in 1..Len(BrickNames) |->
                    Brick(BrickNames[k].label, Size_100GB, Fs_ext4, BrickNames[k].mount)])) >>

FewNodeLists ==
    { <<NodeSpec(JStr(Sel_id1), JInt(1)), NodeSpec(JStr(Sel_labelB), JInt(1))>>,
      <<NodeSpec(JStr(Sel_id1), JInt(2))>>,
      <<NodeSpec(JStr(Sel_labelB), JInt(1))>>,
      <<NodeSpec(JStr(Sel_labelB), JInt(0))>> }

OddNodeSpecs ==
    { NodeSpec(Missing, JInt(1)), NodeSpec(JStr(Sel_id9), JInt(1)),
      NodeSpec(JStr(Sel_id1), Missing), NodeSpec(JStr(Sel_id1), JStr(<<"2">>)),
      NodeSpec(JStr(Sel_id1), JInt(0 - 1)) }

NodeSpecs ==
    {NodeSpec(JStr(sel), JInt(c)) :
        sel \in {Sel_id1, Sel_labelB, Sel_disk48GB}, c \in 0..MaxCount}

Headers ==
    {<<sv, ct, dc>> :
        sv \in {JInt(1), JStr(<<"1">>), Missing},
        ct \in {JStr(S_gluster), JStr(<<"n", "f", "s">>), Missing},
        dc \in {JStr(DcNewark), JStr(DcMars), Missing}}

GoodHeader == <<JInt(1), JStr(S_gluster), JStr(DcNewark)>>

BadHeader == <<JStr(<<"1">>), JStr(<<"n", "f", "s">>), JStr(DcMars)>>

Doc(h, storage, nodes) == Document(h[1], h[2], ClusterPlan(h[3], storage, nodes))

Files ==
    {Malformed}
    \cup {Doc(GoodHeader, GoodStorage, List(n)) :
            n \in SeqsUpTo(NodeSpecs \cup OddNodeSpecs, MaxNodes)}
    \cup {Doc(GoodHeader, st, List(n)) :
            st \in SeqsUpTo(StorageItems, Len(get_plans)), n \in FewNodeLists}
    \cup {Doc(h, GoodStorage, n) :
            h \in {x \in Headers : x[1] = JInt(1) /\ x[2] # Missing},
            n \in {Missing} \cup {List(l) : l \in FewNodeLists}}
    \cup {Document(JInt(1), ct, Missing) : ct \in {JStr(S_gluster), Missing}}
    \cup {Doc(GoodHeader, OverfullStorage, List(<<NodeSpec(JStr(Sel_id1), JInt(1))>>))}

AllSelectors ==
    { Sel_id1, Sel_labelA, Sel_labelB, Sel_disk48GB, Sel_disk48sGB, Sel_id9, Sel_idx,
      Sel_labelZ, Sel_diskGB, Sel_disk48MB, Sel_disk50GB, Sel_foo1, Sel_id1NoColon,
      Sel_id1Colon2 }

ValidateNodeSpecs ==
    {NodeSpec(p, c) :
        p \in {Missing} \cup {JStr(sel) : sel \in AllSelectors}, c \in {JInt(1), JInt(0)}}
    \cup {NodeSpec(JStr(Sel_labelA), c) : c \in {Missing, JInt(0 - 1), JStr(<<"2">>)}}

ValidateFiles ==
    {Malformed}
    \cup {Doc(h, GoodStorage, List(n)) :
            h \in {GoodHeader, BadHeader}, n \in SeqsUpTo(ValidateNodeSpecs, MaxNodes)}
    \cup {Doc(h, GoodStorage, n) :
            h \in Headers,
            n \in {Missing, List(<<>>),
                   List(<<NodeSpec(JStr(Sel_id1), JInt(1))>>),
                   List(<<NodeSpec(JStr(Sel_id9), JInt(0)),
                          NodeSpec(JStr(Sel_labelB), JInt(2))>>)}}
    \cup {Document(h[1], h[2], Missing) : h \in Headers}

(***************************************************************************)
(* The state of one GlusterClusterPlan object and of its run of create().  *)
(***************************************************************************)
VARIABLES
    plan,               \* self.plan, NoPlan before load_from_json has set it
    validated,          \* self.validated
    plan_id_cache,      \* self.plan_id_cache: selector string -> plan id
    global_node_index,  \* self.global_node_index
    plan_node_indexes,  \* self.plan_node_indexes: plan id -> next index
    load_ret,           \* what load_from_json returned: "none" before the call
    vret,               \* how the last validate() ended and what it returned
    pc,                 \* where create() is
    exc,                \* the exception create() ended with, "none" otherwise
    storage_plans,      \* create(): plan id -> disk plan
    brick_mounts,       \* create(): plan id -> list of brick mounts
    node_list,          \* create(): plan id -> list of created nodes
    item_idx,           \* create(): position of the current node entry
    cur_plan_id,        \* create(): plan_id of the current node entry
    i,                  \* create(): the loop variable of range(count)
    calls,              \* history: the core.create_linode calls, in order
    snapshot,           \* the content of cluster.json, NoSnapshot before it is written
    writes,             \* history: how many times cluster.json was written
    invocations,        \* history: the provisioner.exec_playbook calls, in order
    fs_left,            \* plan ids provision_brick_filesystems has still to visit
    mounts_left,        \* plan ids provision_brick_mounts has still to visit
    last_call           \* history: the last direct call of a helper method

vars ==
    << plans, last_call, plan, validated, plan_id_cache, global_node_index,
       plan_node_indexes, load_ret, vret, pc, exc, storage_plans, brick_mounts,
       node_list, item_idx, cur_plan_id, i, calls, snapshot, writes, invocations,
       fs_left, mounts_left >>

objVars == << plan, validated, plan_id_cache, load_ret, vret >>

idxVars == << global_node_index, plan_node_indexes >>

createVars ==
    << pc, exc, storage_plans, brick_mounts, node_list, item_idx, cur_plan_id, i, calls,
       snapshot, writes, invocations, fs_left, mounts_left >>

NoPlan == [t |-> "noplan"]

NoSnapshot == [t |-> "nosnapshot"]

NotCalled == [called |-> FALSE]

NoCall == [fn |-> "none"]

\* what no method of the plan object touches
libVars == << plans, last_call >>

\* GlusterClusterPlan.__init__, the catalog being loaded
Constructed ==
    /\ last_call = NoCall
    /\ plan = NoPlan
    /\ validated = FALSE
    /\ plan_id_cache = EmptyDict
    /\ global_node_index = 1
    /\ plan_node_indexes = [id \in ids |-> 1]
    /\ load_ret = "none"
    /\ vret = NotCalled
    /\ pc = "idle"
    /\ exc = "none"
    /\ storage_plans = EmptyDict
    /\ brick_mounts = EmptyDict
    /\ node_list = EmptyDict
    /\ item_idx = 0
    /\ cur_plan_id = 0
    /\ i = 0
    /\ calls = <<>>
    /\ snapshot = NoSnapshot
    /\ writes = 0
    /\ invocations = <<>>
    /\ fs_left = {}
    /\ mounts_left = {}

Init ==
    /\ plans = get_plans
    /\ Constructed

\* the effect on the object of a call of self.validate() that went as r says
Validated(r) ==
    /\ plan_id_cache' = r.cache
    /\ validated' = r.validated
    /\ vret' = [called |-> TRUE, exc |-> r.exc,
                ret |-> IF r.exc = "none" THEN <<r.valid, r.errors>> ELSE <<>>,
                dv |-> r.dv, examined |-> r.examined]

RunValidate(d) == Validated(validate(d, plan_id_cache, validated))

\* the truth value of the tuple validate() returned
Truthy(tuple) == Len(tuple) # 0

\* load_from_json(filepath), the file holding f
LoadFromJson(f) ==
    /\ IF f = Malformed
       THEN /\ load_ret' = "False"
            /\ UNCHANGED << plan, validated, plan_id_cache, vret >>
       ELSE /\ plan' = f
            /\ RunValidate(f)
            /\ load_ret' = IF vret'.exc # "none" THEN "raised"
                           ELSE IF Truthy(vret'.ret) THEN "True" ELSE "False"
    /\ UNCHANGED << libVars, idxVars, createVars >>

\* validate(), called on a loaded plan
Validate ==
    /\ pc = "idle"
    /\ plan # NoPlan
    /\ RunValidate(plan)
    /\ UNCHANGED << libVars, plan, load_ret, idxVars, createVars >>

(***************************************************************************)
(* create().  One step for lines 83-160, one per node entry (lines         *)
(* 166-177), one per core.create_linode call (lines 179-202), one for the  *)
(* snapshot (lines 208-214) and one per plan id each provisioner visits.   *)
(***************************************************************************)
Raise(e) ==
    /\ pc' = "raised"
    /\ exc' = e

\* number of iterations of range(count)
RangeLen(count) == IF count > 0 THEN count ELSE 0

\* a create() that mounts the bricks before it creates the filesystems
ProvisionPcMountsFirst(fs, mounts) ==
    IF mounts # {} THEN "mounts" ELSE IF fs # {} THEN "fs" ELSE "done"

\* where create() goes after the snapshot, with these plan ids left to each provisioner
ProvisionPc(fs, mounts) ==
    IF fs # {} THEN "fs" ELSE IF mounts # {} THEN "mounts" ELSE "done"

\* a create() that provisions before it has stored the details of the nodes
NodesPcUnsaved(idx) ==
    IF idx > Len(plan.cp.nodes.list) THEN ProvisionPc(DOMAIN brick_mounts, {}) ELSE "entry"

\* where the loop over cluster_plan['nodes'] goes with entry idx next
NodesPc(idx) == IF idx > Len(plan.cp.nodes.list) THEN "save" ELSE "entry"

\* lines 104-166, st being what the loop over cluster_plan['storage'] gave
CreateStorage(st) ==
    IF st.exc # "none"
    THEN Raise(st.exc) /\ UNCHANGED << storage_plans, brick_mounts, item_idx >>
    ELSE IF plan.cp.nodes = Missing
    THEN Raise("KeyError") /\ UNCHANGED << storage_plans, brick_mounts, item_idx >>
    ELSE /\ storage_plans' = st.storage_plans
         /\ brick_mounts' = st.brick_mounts
         /\ item_idx' = 1
         /\ pc' = NodesPc(1)
         /\ exc' = "none"

\* lines 83-166, up to the first node entry
CreateBegin ==
    /\ pc = "idle"
    /\ IF plan = NoPlan
       THEN Raise("AttributeError") /\ UNCHANGED << storage_plans, brick_mounts, item_idx >>
       ELSE IF Lookup(plan, "cluster-plan/datacenter") = Missing
       THEN Raise("KeyError") /\ UNCHANGED << storage_plans, brick_mounts, item_idx >>
       ELSE CreateStorage(StoragePlans(plan.cp.storage))
    /\ UNCHANGED << libVars, objVars, idxVars, node_list, cur_plan_id, i, calls,
                    snapshot, writes, invocations, fs_left, mounts_left >>

\* lines 166-177 with plan_id resolved to id: count is read, the plan's node list is reset
EnterEntry(item, id) ==
    IF item.count = Missing
    THEN Raise("KeyError") /\ UNCHANGED << node_list, item_idx, cur_plan_id, i >>
    ELSE IF item.count.t # "int"
    THEN Raise("TypeError") /\ UNCHANGED << node_list, item_idx, cur_plan_id, i >>
    ELSE /\ node_list' = DictSet(node_list, id, <<>>)
         /\ cur_plan_id' = id
         /\ i' = 0
         /\ exc' = "none"
         /\ IF RangeLen(item.count.i) = 0
            THEN item_idx' = item_idx + 1 /\ pc' = NodesPc(item_idx + 1)
            ELSE item_idx' = item_idx /\ pc' = "iter"

\* line 173, r being what _get_plan_id(plan) gave
EnterResolved(item, r) ==
    IF r.exc # "none"
    THEN Raise(r.exc) /\ UNCHANGED << node_list, item_idx, cur_plan_id, i >>
    ELSE EnterEntry(item, r.v)

\* lines 169-173 for the node entry item
LookupEntry(item) ==
    IF item.plan = Missing
    THEN Raise("KeyError") /\ UNCHANGED << node_list, item_idx, cur_plan_id, i >>
    ELSE IF item.plan.s \in DOMAIN plan_id_cache
    THEN EnterEntry(item, plan_id_cache[item.plan.s])
    ELSE \* 'assert plan_id is not None' fails, or, with assertions compiled out
         \* (python -O), line 173 resolves the selector
         \/ Raise("AssertionError") /\ UNCHANGED << node_list, item_idx, cur_plan_id, i >>
         \/ EnterResolved(item, _get_plan_id(item.plan.s))

\* lines 166-177: the head of the loop body for node entry item_idx
NodeEntry ==
    /\ pc = "entry"
    /\ LookupEntry(plan.cp.nodes.list[item_idx])
    /\ UNCHANGED << libVars, objVars, idxVars, storage_plans, brick_mounts, calls,
                    snapshot, writes, invocations, fs_left, mounts_left >>

\* the record core.create_linode returns, stamped by lines 196-197
NodeInfo(linode_id, global_index, plan_index) ==
    [linode_id |-> linode_id, global_index |-> global_index, plan_index |-> plan_index]

\* node_list[plan_id].append(node_info)
AppendNode(nl, plan_id, node_info) == DictSet(nl, plan_id, Append(nl[plan_id], node_info))

\* counters that advance only when the attempt gave a node
NextPlanIndexOnSuccess(n, ok) == IF ok THEN n + 1 ELSE n

NextGlobalIndexOnSuccess(n, ok) == IF ok THEN n + 1 ELSE n

\* lines 201-202: the counters after an attempt, ok being whether it gave a node
NextPlanIndex(n, ok) == n + 1

NextGlobalIndex(n, ok) == n + 1

\* a loop that repeats the iteration whose attempt gave no node
NextIterRetry(n, ok) == IF ok THEN n + 1 ELSE n

\* line 179: the next value of range(count) after an attempt
NextIter(n, ok) == n + 1

\* lines 179-202: one iteration of range(count); ok is whether create_linode
\* returned a node
CreateLinode(ok) ==
    /\ pc = "iter"
    /\ IF cur_plan_id \notin DOMAIN storage_plans
       THEN /\ Raise("KeyError")
            /\ UNCHANGED << idxVars, node_list, item_idx, i, calls >>
       ELSE /\ calls' = Append(calls,
                    [entry |-> item_idx, i |-> i, plan_id |-> cur_plan_id, ok |-> ok,
                     global_index |-> global_node_index,
                     plan_index |-> plan_node_indexes[cur_plan_id]])
            /\ node_list' =
                 IF ok
                 THEN AppendNode(node_list, cur_plan_id,
                        NodeInfo(Len(calls) + 1, global_node_index,
                                 plan_node_indexes[cur_plan_id]))
                 ELSE node_list
            /\ plan_node_indexes' =
                 [plan_node_indexes EXCEPT ![cur_plan_id] = NextPlanIndex(@, ok)]
            /\ global_node_index' = NextGlobalIndex(global_node_index, ok)
            /\ exc' = "none"
            /\ IF NextIter(i, ok) < plan.cp.nodes.list[item_idx].count.i
               THEN i' = NextIter(i, ok) /\ item_idx' = item_idx /\ pc' = "iter"
               ELSE i' = i /\ item_idx' = item_idx + 1 /\ pc' = NodesPc(item_idx + 1)
    /\ UNCHANGED << libVars, objVars, storage_plans, brick_mounts, cur_plan_id,
                    snapshot, writes, invocations, fs_left, mounts_left >>

\* lines 208-214: cluster.json is written; made is whether os.makedirs and open
\* succeeded
SaveSnapshot(made) ==
    /\ pc = "save"
    /\ IF made
       THEN /\ snapshot' = [t |-> "json", data |-> node_list]
            /\ writes' = writes + 1
            /\ fs_left' = DOMAIN brick_mounts
            /\ mounts_left' = DOMAIN node_list
            /\ pc' = ProvisionPc(DOMAIN brick_mounts, DOMAIN node_list)
            /\ exc' = "none"
       ELSE /\ Raise("OSError")
            /\ UNCHANGED << snapshot, writes, fs_left, mounts_left >>
    /\ UNCHANGED << libVars, objVars, idxVars, storage_plans, brick_mounts, node_list,
                    item_idx, cur_plan_id, i, calls, invocations >>

(***************************************************************************)
(* BrickFilesystemsProvisioner and BrickMountsProvisioner.  A dict is      *)
(* visited in an order the code does not fix: any plan id left may be next.*)
(***************************************************************************)
\* str.lower() on the letters filesystem names are written with
LowerChar(c) ==
    IF c = "E" THEN "e" ELSE IF c = "X" THEN "x" ELSE IF c = "T" THEN "t"
    ELSE IF c = "F" THEN "f" ELSE IF c = "S" THEN "s" ELSE c

Lower(s) == [k \in 1..Len(s) |-> LowerChar(s[k])]

Fs_ext3 == <<"e", "x", "t", "3">>

\* lines 414-418: the bricks whose filesystem is not ext4 or ext3
RECURSIVE Filesystems(_)
Filesystems(bricks_for_plan) ==
    IF bricks_for_plan = <<>> THEN <<>>
    ELSE LET brick == Head(bricks_for_plan)
         IN  (IF Lower(brick.fs) \notin {Fs_ext4, Fs_ext3}
              THEN <<[fs |-> brick.fs, device |-> brick.device]>> ELSE <<>>)
             \o Filesystems(Tail(bricks_for_plan))

\* targets = [n.public_ip[0] for n in nodes_of_plan]: a node is named by its linode id
Targets(nodes_of_plan) == [k \in 1..Len(nodes_of_plan) |-> nodes_of_plan[k].linode_id]

\* lines 420-428 for one plan id, filesystems being its filtered bricks; ok is the
\* outcome exec_playbook reports, which is not read
ExecFilesystems(plan_id, filesystems, ok) ==
    IF Len(filesystems) > 0 /\ plan_id \notin DOMAIN node_list
    THEN Raise("KeyError") /\ UNCHANGED << invocations, fs_left >>
    ELSE /\ invocations' =
              IF Len(filesystems) > 0
              THEN Append(invocations,
                     [playbook |-> "ansible/create_filesystems.yaml",
                      plan_id |-> plan_id,
                      targets |-> Targets(node_list[plan_id]),
                      variables |-> [filesystems |-> filesystems],
                      ok |-> ok])
              ELSE invocations
         /\ fs_left' = fs_left \ {plan_id}
         /\ pc' = ProvisionPc(fs_left \ {plan_id}, mounts_left)
         /\ exc' = "none"

\* lines 413-428: one plan id of brick_mounts
ProvisionFilesystems(plan_id, ok) ==
    /\ pc = "fs"
    /\ plan_id \in fs_left
    /\ ExecFilesystems(plan_id, Filesystems(brick_mounts[plan_id]), ok)
    /\ UNCHANGED << libVars, objVars, idxVars, storage_plans, brick_mounts, node_list,
                    item_idx, cur_plan_id, i, calls, snapshot, writes, mounts_left >>

\* a mount step that runs no playbook for a plan id without brick mounts
ProvisionMountsNonEmpty(plan_id, ok) ==
    /\ pc = "mounts"
    /\ plan_id \in mounts_left
    /\ IF plan_id \notin DOMAIN brick_mounts
       THEN Raise("KeyError") /\ UNCHANGED << invocations, mounts_left >>
       ELSE /\ invocations' =
                 IF brick_mounts[plan_id] = <<>> THEN invocations
                 ELSE Append(invocations,
                        [playbook |-> "ansible/mount_bricks.yaml",
                         plan_id |-> plan_id,
                         targets |-> Targets(node_list[plan_id]),
                         variables |-> [mounts |-> brick_mounts[plan_id]],
                         ok |-> ok])
            /\ mounts_left' = mounts_left \ {plan_id}
            /\ pc' = ProvisionPc({}, mounts_left \ {plan_id})
            /\ exc' = "none"
    /\ UNCHANGED << libVars, objVars, idxVars, storage_plans, brick_mounts, node_list,
                    item_idx, cur_plan_id, i, calls, snapshot, writes, fs_left >>

\* lines 391-399: one plan id of node_list; ok is the outcome exec_playbook reports,
\* which is not read
ProvisionMounts(plan_id, ok) ==
    /\ pc = "mounts"
    /\ plan_id \in mounts_left
    /\ IF plan_id \notin DOMAIN brick_mounts
       THEN Raise("KeyError") /\ UNCHANGED << invocations, mounts_left >>
       ELSE /\ invocations' =
                 Append(invocations,
                    [playbook |-> "ansible/mount_bricks.yaml",
                     plan_id |-> plan_id,
                     targets |-> Targets(node_list[plan_id]),
                     variables |-> [mounts |-> brick_mounts[plan_id]],
                     ok |-> ok])
            /\ mounts_left' = mounts_left \ {plan_id}
            /\ pc' = ProvisionPc({}, mounts_left \ {plan_id})
            /\ exc' = "none"
    /\ UNCHANGED << libVars, objVars, idxVars, storage_plans, brick_mounts, node_list,
                    item_idx, cur_plan_id, i, calls, snapshot, writes, fs_left >>

(***************************************************************************)
(* The specifications.                                                     *)
(***************************************************************************)
Create ==
    \/ CreateBegin
    \/ NodeEntry
    \/ \E ok \in BOOLEAN : CreateLinode(ok)
    \/ \E made \in BOOLEAN : SaveSnapshot(made)
    \/ \E plan_id \in ids, ok \in BOOLEAN : ProvisionFilesystems(plan_id, ok)
    \/ \E plan_id \in ids, ok \in BOOLEAN : ProvisionMounts(plan_id, ok)

\* the object loads one file, once, before create() runs
Unloaded ==
    /\ pc = "idle"
    /\ plan = NoPlan
    /\ load_ret = "none"

Load == Unloaded /\ \E f \in Files : LoadFromJson(f)

LoadValidate == Unloaded /\ \E f \in ValidateFiles : LoadFromJson(f)

Next ==
    \/ Load
    \/ Validate
    \/ Create

Spec == Init /\ [][Next]_vars

NextValidate ==
    \/ LoadValidate
    \/ Validate

SpecValidate == Init /\ [][NextValidate]_vars

(***************************************************************************)
(* The helper methods called on their own, once on a fresh object, over    *)
(* any catalog of at most MaxPlans instance classes.                       *)
(***************************************************************************)
Catalogs ==
    {c \in SeqsUpTo([PLANID : {1, 2}, LABEL : {<<"A">>, <<"B">>}, DISK : {24, 48}],
                    MaxPlans) : c # <<>>}

\* numbers and the way they are written in a selector
Numerals ==
    { [n |-> 1, s |-> <<"1">>], [n |-> 2, s |-> <<"2">>], [n |-> 9, s |-> <<"9">>],
      [n |-> 24, s |-> <<"2", "4">>], [n |-> 48, s |-> <<"4", "8">>],
      [n |-> 50, s |-> <<"5", "0">>] }

\* the selector '<kind>:<value>'
SelOf(kind, value) == kind \o <<":">> \o value

\* the ways a capacity's unit is written: none, 'GB', ' GB'
DiskUnits == {<<>>, U_GB, <<" ">> \o U_GB}

PureSelectors ==
    AllSelectors
    \cup {SelOf(K_id, m.s) : m \in Numerals}
    \cup {SelOf(K_disk, m.s \o u) : m \in Numerals, u \in DiskUnits}
    \cup {SelOf(K_label, x) : x \in {<<"A">>, <<"B">>, <<"Z">>}}

\* self._get_plan_id(plan)
GetPlanId ==
    /\ last_call = NoCall
    /\ \E sel \in PureSelectors :
          last_call' = [fn |-> "_get_plan_id", arg |-> sel, ret |-> _get_plan_id(sel)]
    /\ UNCHANGED << plans, objVars, idxVars, createVars >>

\* item['disks'] of a storage entry: boot and swap present or not, up to seven bricks
LayoutDisks ==
    {Disks(boot, swap,
           [k \in 1..n |-> Brick(BrickNames[k].label, Size_100GB, fs, BrickNames[k].mount)]) :
        boot \in {Missing, BootDisk},
        swap \in {Missing, SwapAuto, [size |-> JInt(512)], [size |-> JStr(<<"5", "1", "2">>)]},
        n \in 0..Len(BrickNames),
        fs \in {Fs_xfs, Fs_ext4}}

\* create(), lines 107-157: the disk plan and the brick mounts of one storage entry
ComputeLayout ==
    /\ last_call = NoCall
    /\ \E disks \in LayoutDisks :
          last_call' = [fn |-> "disk_plan", arg |-> disks, ret |-> DiskPlan(disks)]
    /\ UNCHANGED << plans, objVars, idxVars, createVars >>

\* the spellings of the units, each with its number of megabytes
UnitSpellings ==
    { [s |-> <<"M", "B">>, mb |-> 1], [s |-> <<"m", "b">>, mb |-> 1],
      [s |-> <<"G", "B">>, mb |-> 1024], [s |-> <<"g", "b">>, mb |-> 1024],
      [s |-> <<"G", "b">>, mb |-> 1024], [s |-> <<"T", "B">>, mb |-> 1024 * 1024],
      [s |-> <<"t", "B">>, mb |-> 1024 * 1024] }

\* what stands between the number and the unit
Blanks == {<<>>, <<" ">>, <<" ", " ">>}

\* what is written for a unit and is none of MB, GB, TB
UnknownUnits == {<<"K", "B">>, <<"G">>, <<"B">>, <<"G", "i", "B">>, <<"G", "B", "x">>}

\* the sizes of a storage entry: integers and strings, well formed or not
Sizes ==
    {JInt(n) : n \in {0, 20, 100000}}
    \cup {JStr(num \o ws \o unit) :
            num \in {m.s : m \in Numerals} \cup {<<>>},
            ws \in Blanks,
            unit \in {u.s : u \in UnitSpellings} \cup UnknownUnits \cup {<<>>}}

\* self._disk_size_in_mb(size)
DiskSizeInMb ==
    /\ last_call = NoCall
    /\ \E size \in Sizes :
          last_call' = [fn |-> "_disk_size_in_mb", arg |-> size, ret |-> _disk_size_in_mb(size)]
    /\ UNCHANGED << plans, objVars, idxVars, createVars >>

InitPure ==
    /\ plans \in Catalogs
    /\ Constructed

NextPure ==
    \/ GetPlanId
    \/ ComputeLayout
    \/ DiskSizeInMb

SpecPure == InitPure /\ [][NextPure]_vars

(***************************************************************************)
(* Properties of create(): the node indexes.                               *)
(***************************************************************************)
CreationDone == pc \in {"save", "fs", "mounts", "done"}

\* the number of create_linode attempts the node entries ask for
RECURSIVE SumCount(_)
SumCount(nodes) ==
    IF nodes = <<>> THEN 0 ELSE RangeLen(Head(nodes).count.i) + SumCount(Tail(nodes))

\* C1: the k-th creation attempt of create() is given global index k, whether it
\* succeeds or fails: the counter starts at 1 and is one more than the number of
\* attempts made; when the node loop is over the indexes given are exactly
\* 1..(sum of the counts); a recorded node carries the index of its attempt, so the
\* indexes recorded for a plan id increase strictly and none is recorded twice.
C1_GlobalIndex ==
    /\ global_node_index = Len(calls) + 1
    /\ \A k \in 1..Len(calls) : calls[k].global_index = k
    /\ CreationDone => Len(calls) = SumCount(plan.cp.nodes.list)
    /\ \A id \in DOMAIN node_list :
          /\ \A k \in 1..Len(node_list[id]) :
                /\ node_list[id][k].global_index = node_list[id][k].linode_id
                /\ node_list[id][k].global_index \in 1..Len(calls)
                /\ calls[node_list[id][k].global_index].ok
          /\ \A k, m \in 1..Len(node_list[id]) :
                k < m => node_list[id][k].global_index < node_list[id][m].global_index
    /\ \A id1, id2 \in DOMAIN node_list :
          \A k \in 1..Len(node_list[id1]), m \in 1..Len(node_list[id2]) :
             node_list[id1][k].global_index = node_list[id2][m].global_index
                => id1 = id2 /\ k = m

\* create() is over, and attempts of two node entries failed and succeeded
C1_Witness ==
    /\ pc = "done"
    /\ Len(calls) >= 3
    /\ \E k, m \in 1..Len(calls) :
          /\ k < m /\ ~calls[k].ok /\ calls[m].ok
          /\ calls[k].entry # calls[m].entry

\* the number of attempts among the first k made for plan id
AttemptsOf(id, k) == Cardinality({j \in 1..k : calls[j].plan_id = id})

\* C2: the attempts made for one plan id are given the plan indexes 1, 2, ... in
\* order, whether they succeed or fail, and the counter of a plan id is one more
\* than the number of attempts made for it: an attempt for another plan id does not
\* advance it.
C2_PlanIndex ==
    /\ \A k \in 1..Len(calls) : calls[k].plan_index = AttemptsOf(calls[k].plan_id, k)
    /\ \A id \in ids : plan_node_indexes[id] = AttemptsOf(id, Len(calls)) + 1
    /\ \A id \in DOMAIN node_list : \A k \in 1..Len(node_list[id]) :
          node_list[id][k].plan_index = calls[node_list[id][k].linode_id].plan_index

\* create() is over after attempts for two plan ids, one of them failed, the failed
\* one followed by an attempt for the same plan id
C2_Witness ==
    /\ pc = "done"
    /\ \E k, m, n \in 1..Len(calls) :
          /\ calls[k].plan_id # calls[m].plan_id
          /\ k < n /\ ~calls[k].ok /\ calls[n].plan_id = calls[k].plan_id

(***************************************************************************)
(* Properties of create(): the snapshot and the order of the steps.        *)
(***************************************************************************)
\* the nodes recorded in the snapshot: plan id and position in its list
SnapshotNodes ==
    UNION {{<<id, m>> : m \in 1..Len(snapshot.data[id])} : id \in DOMAIN snapshot.data}

\* C3: in the snapshot create() writes, every create_linode call that gave a node
\* has exactly one record, in the list of its plan id, every call that gave none has
\* no record, and the lists hold as many records as calls succeeded.
C3_SnapshotExact ==
    snapshot # NoSnapshot =>
        /\ \A k \in 1..Len(calls) :
              Cardinality({m \in 1..Len(snapshot.data[calls[k].plan_id]) :
                              snapshot.data[calls[k].plan_id][m].linode_id = k})
                 = IF calls[k].ok THEN 1 ELSE 0
        /\ Cardinality(SnapshotNodes) = Cardinality({k \in 1..Len(calls) : calls[k].ok})

\* C4: cluster.json is written at most once, only when every create_linode call of
\* the plan has been made, and before any exec_playbook call: whenever a playbook
\* has been run, or create() is in or past the provisioners, the snapshot has been
\* written exactly once and holds the final node lists.
C4_SnapshotOrder ==
    /\ writes <= 1
    /\ writes = 1 <=> snapshot # NoSnapshot
    /\ snapshot # NoSnapshot =>
          /\ Len(calls) = SumCount(plan.cp.nodes.list)
          /\ snapshot.data = node_list
    /\ invocations # <<>> => writes = 1
    /\ pc \in {"fs", "mounts", "done"} => writes = 1
    /\ pc \in {"idle", "entry", "iter", "save"} => writes = 0 /\ invocations = <<>>

\* create() is over: nodes were created, the snapshot written, both playbooks run
C4_Witness ==
    /\ pc = "done"
    /\ writes = 1
    /\ calls # <<>>
    /\ \E k, m \in 1..Len(invocations) :
          /\ invocations[k].playbook = "ansible/create_filesystems.yaml"
          /\ invocations[m].playbook = "ansible/mount_bricks.yaml"

\* the (node entry, iteration) pairs of the plan in document order
RECURSIVE DocOrder(_, _)
DocOrder(nodes, e) ==
    IF e > Len(nodes) THEN <<>>
    ELSE [k \in 1..(IF nodes[e].count.t = "int" THEN RangeLen(nodes[e].count.i) ELSE 0)
            |-> <<e, k - 1>>] \o DocOrder(nodes, e + 1)

\* the create_linode calls made are the first pairs of the document order, each once
CallsInDocOrder ==
    /\ Len(calls) <= Len(DocOrder(plan.cp.nodes.list, 1))
    /\ \A k \in 1..Len(calls) :
          <<calls[k].entry, calls[k].i>> = DocOrder(plan.cp.nodes.list, 1)[k]

\* C5: create() makes one create_linode call per node entry and iteration, in
\* document order and none twice; a call that gives no node leaves the node lists
\* as they were and create() goes on with the next iteration, the next node entry or
\* the snapshot; when the snapshot step is reached every call has been made.
C5_FailureNonFatal ==
    /\ [](calls # <<>> => CallsInDocOrder)
    /\ [](CreationDone => Len(calls) = Len(DocOrder(plan.cp.nodes.list, 1)))
    /\ [][(Len(calls') = Len(calls) + 1 /\ ~calls'[Len(calls')].ok)
            => /\ node_list' = node_list
               /\ pc' \in {"iter", "entry", "save"}
               /\ exc' = "none"]_vars

\* the snapshot is written after a call that gave no node, followed by one that did
C5_Witness ==
    /\ snapshot # NoSnapshot
    /\ \E k \in 1..Len(calls) : \E m \in 1..Len(calls) :
          k < m /\ ~calls[k].ok /\ calls[m].ok
    /\ \E id \in DOMAIN snapshot.data : snapshot.data[id] # <<>>

\* C6: a create_linode call is made only on a plan that validate() has marked
\* validated.
C6_RequiresValidated == calls # <<>> => vret # NotCalled /\ validated

(***************************************************************************)
(* Properties of validate().                                               *)
(***************************************************************************)
\* the structural conditions on which validate() gives up: lines 246, 256, 261
Fatal(d) == d.cp = Missing \/ d.cp.nodes = Missing \/ d.cp.nodes.list = <<>>

\* validate() was called on the loaded plan and went through the node entries
RanToEnd == vret.called /\ vret.exc = "none" /\ ~Fatal(plan)

\* the error list of the returned tuple, None standing for no error
ReturnedErrors(ret) == IF ret[2].some THEN ret[2].list ELSE <<>>

\* C7: validate() returns False exactly on a fatal structural condition, and
\* otherwise True together with every error it recorded.
C7_ReturnsErrors ==
    (vret.called /\ vret.exc = "none") =>
        /\ vret.ret[1] = ~Fatal(plan)
        /\ vret.ret[1] => ReturnedErrors(vret.ret) = vret.dv

\* C8, as stated: after a validate() that went through the node entries the plan is
\* marked validated, whatever non-fatal errors were recorded.
C8_ValidatedDespiteErrors == RanToEnd => validated

\* C8, amended: a validate() that went through the node entries returns True, and
\* it leaves the plan marked validated exactly when it recorded no error.
C8_ValidatedIffNoErrors ==
    RanToEnd => /\ vret.ret[1] = TRUE
                /\ validated <=> Len(vret.dv) = 0

\* validate() went through the node entries, recorded errors and returned True
C8_Witness == RanToEnd /\ vret.ret[1] /\ Len(vret.dv) > 0 /\ ~validated

\* the selector of node entry item is present and does not resolve
Unresolved(item) == item.plan # Missing /\ _get_plan_id(item.plan.s).exc # "none"

NoCount(item) == item.count = Missing \/ item.count = JInt(0)

\* C9: whatever selectors fail to resolve, validate() does not abort: it goes
\* through every node entry, records for each entry whose selector does not resolve
\* one error naming its position, caches nothing for it, and still checks the count
\* of every entry.
C9_SelectorErrorsAccumulate ==
    (vret.called /\ ~Fatal(plan)) =>
        LET nodes == plan.cp.nodes.list
        IN  /\ vret.exc = "none"
            /\ vret.examined = Len(nodes)
            /\ \A n \in 1..Len(nodes) :
                  Unresolved(nodes[n]) =>
                     /\ Cardinality({k \in 1..Len(vret.dv) : vret.dv[k].pos = n}) = 1
                     /\ nodes[n].plan.s \notin DOMAIN plan_id_cache
            /\ Cardinality({k \in 1..Len(vret.dv) : vret.dv[k].e = "count is missing or 0"})
                 = Cardinality({n \in 1..Len(nodes) : NoCount(nodes[n])})

\* the number of violations in the document d, counted from the document alone
HeaderViolations(d) ==
    (IF d.sv.t # "int" THEN 1 ELSE 0)
    + (IF d.ct # JStr(S_gluster) THEN 1 ELSE 0)
    + (IF d.cp.datacenter = Missing THEN 1
       ELSE IF d.cp.datacenter.s \notin DOMAIN dcs THEN 1 ELSE 0)

EntryViolations(item) ==
    (IF item.plan = Missing \/ Unresolved(item) THEN 1 ELSE 0)
    + (IF item.count # Missing /\ item.count.t # "int" THEN 1 ELSE 0)
    + (IF NoCount(item) THEN 1 ELSE 0)

RECURSIVE NodeViolations(_)
NodeViolations(nodes) ==
    IF nodes = <<>> THEN 0 ELSE EntryViolations(Head(nodes)) + NodeViolations(Tail(nodes))

\* C10: validate() returns early with False exactly when 'cluster-plan' is missing
\* or the node list is missing or empty (its last error then says so, no node entry
\* is examined, nothing is cached and the plan is not marked validated); in every
\* other case it goes through every node entry, returns True, and its error list
\* holds one error per violation of the document.
C10_ShortCircuitOnlyStructural ==
    vret.called =>
        IF Fatal(plan)
        THEN /\ vret.exc = "none"
             /\ vret.ret[1] = FALSE
             /\ vret.examined = 0
             /\ plan_id_cache = EmptyDict
             /\ ~validated
             /\ vret.dv # <<>>
             /\ vret.dv[Len(vret.dv)] =
                  IF plan.cp = Missing THEN Err("Missing key", "cluster-plan", 0)
                  ELSE IF plan.cp.nodes = Missing
                  THEN Err("Missing key", "cluster-plan/nodes", 0)
                  ELSE Err("'nodes' is empty", "", 0)
        ELSE /\ vret.exc = "none"
             /\ vret.ret[1] = TRUE
             /\ vret.examined = Len(plan.cp.nodes.list)
             /\ Len(vret.dv) = HeaderViolations(plan) + NodeViolations(plan.cp.nodes.list)

(***************************************************************************)
(* Properties of the helper methods.                                       *)
(***************************************************************************)
\* the selectors that do not split into two tokens '<kind>:<value>' with a kind
\* among id, label, disk
IllFormed == {Sel_foo1, Sel_id1NoColon, Sel_id1Colon2}

\* C11: over every catalog, 'id:<n>' resolves, to n, iff n is an id of the catalog;
\* 'label:<X>' resolves iff X is a label of the catalog, to the id of an entry with
\* that label; 'disk:<n>', 'disk:<n>GB' and 'disk:<n> GB' give the same result and
\* resolve iff n is a capacity of the catalog, to the id of an entry with that
\* capacity; every other failure, and every selector that is not two tokens with a
\* kind among id, label, disk, ends with the ValueError of an invalid selector.
C11_SelectorResolution ==
    last_call.fn = "_get_plan_id" =>
        LET sel == last_call.arg
            r == last_call.ret
            K == 1..Len(plans)
        IN  /\ r.exc \in {"none", "ValueError"}
            /\ \A m \in Numerals :
                  /\ sel = SelOf(K_id, m.s) =>
                        IF \E k \in K : plans[k].PLANID = m.n
                        THEN r.exc = "none" /\ r.v = m.n
                        ELSE r.exc = "ValueError"
                  /\ \A u \in DiskUnits :
                        sel = SelOf(K_disk, m.s \o u) =>
                           /\ IF \E k \in K : plans[k].DISK = m.n
                              THEN /\ r.exc = "none"
                                   /\ \E k \in K : plans[k].DISK = m.n /\ plans[k].PLANID = r.v
                              ELSE r.exc = "ValueError"
                           /\ \A u2 \in DiskUnits : _get_plan_id(SelOf(K_disk, m.s \o u2)) = r
            /\ \A x \in {<<"A">>, <<"B">>, <<"Z">>} :
                  sel = SelOf(K_label, x) =>
                     IF \E k \in K : plans[k].LABEL = x
                     THEN /\ r.exc = "none"
                          /\ \E k \in K : plans[k].LABEL = x /\ plans[k].PLANID = r.v
                     ELSE r.exc = "ValueError"
            /\ sel \in IllFormed => r.exc = "ValueError"

\* the number of logical disks of a storage entry's disks
LogicalDisks(disks) ==
    (IF disks.boot # Missing THEN 1 ELSE 0) + (IF disks.swap # Missing THEN 1 ELSE 0)
    + Len(disks.bricks)

\* C12: for disks with at most 8 logical disks the layout succeeds and the brick
\* mounts are one per brick, in document order, brick k (from 1) on the device of
\* slot b + s + k of sda..sdh, b and s being 1 when boot and swap are present (swap
\* 'auto' included), with its mount point and filesystem; the devices are pairwise
\* distinct, and boot, swap and one brick put the brick on /dev/sdc.
C12_LayoutSlots ==
    (last_call.fn = "disk_plan" /\ LogicalDisks(last_call.arg) <= 8) =>
        LET d == last_call.arg
            r == last_call.ret
            pool == <<"sda", "sdb", "sdc", "sdd", "sde", "sdf", "sdg", "sdh">>
            first == LogicalDisks(d) - Len(d.bricks)
        IN  /\ r.exc = "none"
            /\ Len(r.mounts) = Len(d.bricks)
            /\ \A k \in 1..Len(d.bricks) :
                  r.mounts[k] = [device |-> <<"/dev/", pool[first + k]>>,
                                 mount |-> d.bricks[k].mount, fs |-> d.bricks[k].type]
            /\ \A k, m \in 1..Len(r.mounts) :
                  r.mounts[k].device = r.mounts[m].device => k = m
            /\ (d.boot # Missing /\ d.swap # Missing /\ Len(d.bricks) = 1)
                  => r.mounts[1].device = <<"/dev/", "sdc">>

\* a layout with boot, swap 'auto' and six bricks: the last brick is on /dev/sdh
C12_Witness ==
    /\ last_call.fn = "disk_plan"
    /\ last_call.arg.boot # Missing
    /\ last_call.arg.swap = SwapAuto
    /\ Len(last_call.arg.bricks) = 6
    /\ last_call.ret.exc = "none"
    /\ last_call.ret.mounts[6].device = <<"/dev/", "sdh">>

(***************************************************************************)
(* Properties of validate() and create(): what validation guarantees.      *)
(***************************************************************************)
\* validate() ran to a return on a plan that has a 'cluster-plan'
Checked == vret.called /\ vret.exc = "none" /\ plan.cp # Missing

\* C13: validate() records an error for a plan with a storage entry of more than 8
\* logical disks and does not mark it validated, and create() never takes a device
\* name beyond the eight of block_device_names.
C13_CeilingValidated ==
    /\ (Checked /\ \E k \in 1..Len(plan.cp.storage) :
                      LogicalDisks(plan.cp.storage[k].disks) > 8)
          => Len(vret.dv) > 0 /\ ~validated
    /\ exc # "IndexError"

\* the class id of node entry item has no storage entry in the plan
Orphan(item) ==
    /\ item.plan # Missing
    /\ _get_plan_id(item.plan.s).exc = "none"
    /\ \A k \in 1..Len(plan.cp.storage) :
          _get_plan_id(plan.cp.storage[k].plan) # _get_plan_id(item.plan.s)

\* C14: validate() records an error for a plan with a node entry whose class id has
\* no storage entry and does not mark it validated, and create() never fails
\* looking up the storage plan of a node entry's class id.
C14_StorageSpecValidated ==
    /\ (Checked /\ ~Fatal(plan)
           /\ \E n \in 1..Len(plan.cp.nodes.list) : Orphan(plan.cp.nodes.list[n]))
          => Len(vret.dv) > 0 /\ ~validated
    /\ (pc = "raised" /\ exc = "KeyError" /\ ~Fatal(plan)
           /\ item_idx \in 1..Len(plan.cp.nodes.list))
          => \/ plan.cp.nodes.list[item_idx].plan = Missing
             \/ plan.cp.nodes.list[item_idx].count = Missing

(***************************************************************************)
(* Properties of the provisioners.                                         *)
(***************************************************************************)
\* the positions in invocations of the runs of playbook
RunsOf(playbook) == {k \in 1..Len(invocations) : invocations[k].playbook = playbook}

\* the bricks of a brick-mount list whose filesystem is not ext3 or ext4
Eligible(bricks) == SelectSeq(bricks, LAMBDA b : Lower(b.fs) \notin {Fs_ext4, Fs_ext3})

\* the instances created for plan id, in creation order
CreatedOf(id) ==
    SelectSeq([k \in 1..Len(calls) |-> k], LAMBDA k : calls[k].ok /\ calls[k].plan_id = id)

\* C15: every run of the create_filesystems playbook is for a class with a brick
\* that is not ext3/ext4, targets all the instances created for the class and
\* passes the {fs, device} pairs of those bricks in brick order; no class gets two
\* runs; when the filesystem step is over the classes that got a run are exactly
\* the classes with such a brick; and the step raises no error.
C15_Filesystems ==
    /\ \A k \in RunsOf("ansible/create_filesystems.yaml") :
          LET v == invocations[k]
          IN  /\ v.plan_id \in DOMAIN brick_mounts
              /\ Eligible(brick_mounts[v.plan_id]) # <<>>
              /\ v.targets = CreatedOf(v.plan_id)
              /\ v.variables.filesystems =
                    [m \in 1..Len(Eligible(brick_mounts[v.plan_id])) |->
                        [fs |-> Eligible(brick_mounts[v.plan_id])[m].fs,
                         device |-> Eligible(brick_mounts[v.plan_id])[m].device]]
              /\ \A j \in RunsOf("ansible/create_filesystems.yaml") :
                    invocations[j].plan_id = v.plan_id => j = k
    /\ pc \in {"mounts", "done"} =>
          {invocations[k].plan_id : k \in RunsOf("ansible/create_filesystems.yaml")}
             = {id \in DOMAIN brick_mounts : Eligible(brick_mounts[id]) # <<>>}
    /\ ~(pc = "raised" /\ writes = 1 /\ fs_left # {})

\* every run of the mount_bricks playbook is for a class of the node lists, targets
\* the instances recorded for the class and passes its brick mounts, all of them and
\* in order; no class gets two runs
MountRuns ==
    \A k \in RunsOf("ansible/mount_bricks.yaml") :
       LET v == invocations[k]
       IN  /\ v.plan_id \in DOMAIN node_list \cap DOMAIN brick_mounts
           /\ v.targets =
                 [m \in 1..Len(node_list[v.plan_id]) |-> node_list[v.plan_id][m].linode_id]
           /\ v.variables.mounts = brick_mounts[v.plan_id]
           /\ \A j \in RunsOf("ansible/mount_bricks.yaml") :
                 invocations[j].plan_id = v.plan_id => j = k

C17_FilesystemsBeforeMounts ==
    /\ [](\A j \in RunsOf("ansible/mount_bricks.yaml") :
            \A k \in RunsOf("ansible/create_filesystems.yaml") : k < j)
    /\ []((pc = "mounts" \/ RunsOf("ansible/mount_bricks.yaml") # {}) => fs_left = {})
    /\ [][(/\ Len(invocations') = Len(invocations) + 1
            /\ invocations'[Len(invocations')].playbook = "ansible/create_filesystems.yaml")
            => /\ exc' = "none"
               /\ pc' = IF fs_left' # {} THEN "fs"
                        ELSE IF mounts_left' # {} THEN "mounts" ELSE "done"]_vars

\* create() is over: a create_filesystems run reported a failure and a mount_bricks
\* run came after it
C17_Witness ==
    /\ pc = "done"
    /\ \E j \in RunsOf("ansible/create_filesystems.yaml") :
          /\ ~invocations[j].ok
          /\ \E k \in RunsOf("ansible/mount_bricks.yaml") : j < k

\* C18: _disk_size_in_mb returns an integer size unchanged; for a string made of an
\* integer n, optional whitespace and a unit in any letter case it returns n for MB,
\* n*1024 for GB and n*1024*1024 for TB; a string with no number before the unit,
\* with something else than MB, GB or TB for a unit, or with no unit at all, raises
\* the ValueError of an invalid disk size.
C18_DiskSizes ==
    last_call.fn = "_disk_size_in_mb" =>
        LET size == last_call.arg
            r == last_call.ret
        IN  /\ size.t = "int" => r = Returned(size.i)
            /\ size.t = "str" =>
                  /\ r.exc \in {"none", "ValueError"}
                  /\ \A ws \in Blanks :
                        /\ \A m \in Numerals :
                              /\ \A u \in UnitSpellings :
                                    size.s = m.s \o ws \o u.s => r = Returned(m.n * u.mb)
                              /\ \A x \in UnknownUnits :
                                    size.s = m.s \o ws \o x => r.exc = "ValueError"
                              /\ size.s = m.s \o ws => r.exc = "ValueError"
                        /\ \A u \in UnitSpellings :
                              size.s = ws \o u.s => r.exc = "ValueError"

\* the count of node entry item is a positive integer
PositiveCount(item) == item.count # Missing /\ item.count.t = "int" /\ item.count.i > 0

\* the errors validate() recorded about a count
CountErrorsOf(dv) ==
    {k \in 1..Len(dv) : dv[k].e \in {"count should be an integer", "count is missing or 0"}}

\* C19: a validate() that went through the node entries has recorded one error
\* about the count for every entry whose count is missing, 0, negative or not an
\* integer, and none for an entry whose count is a positive integer; with such an
\* entry the error list is not empty and the plan is not marked validated.
C19_CountErrors ==
    RanToEnd =>
        LET nodes == plan.cp.nodes.list
            bad == {n \in 1..Len(nodes) : ~PositiveCount(nodes[n])}
        IN  /\ Cardinality(CountErrorsOf(vret.dv)) = Cardinality(bad)
            /\ bad # {} => vret.dv # <<>> /\ ~validated

\* the selector of node entry item is present and resolves
Resolves(item) == item.plan # Missing /\ _get_plan_id(item.plan.s).exc = "none"

\* plan_id_cache has exactly the selector strings of the node entries that resolve
\* as keys, each mapped to the id it resolves to
CacheExact ==
    LET nodes == plan.cp.nodes.list
        hits == {n \in 1..Len(nodes) : Resolves(nodes[n])}
    IN  /\ DOMAIN plan_id_cache = {nodes[n].plan.s : n \in hits}
        /\ \A n \in hits : plan_id_cache[nodes[n].plan.s] = _get_plan_id(nodes[n].plan.s).v

\* C20: after a validate() that went through the node entries, plan_id_cache has
\* exactly the selector strings of the node entries that resolved as keys, each
\* mapped to the id it resolved to (two strings of the same id are two keys, a
\* selector that failed is no key); create() leaves the cache as validate() left
\* it; and every node entry create() then goes into has its selector string in the
\* cache and its plan id taken from there.
C20_SelectorCache ==
    /\ []((RanToEnd /\ pc = "idle") => CacheExact)
    /\ [][pc # "idle" => plan_id_cache' = plan_id_cache]_vars
    /\ [][(RanToEnd /\ pc = "entry" /\ pc' # "raised") =>
            /\ plan.cp.nodes.list[item_idx].plan.s \in DOMAIN plan_id_cache
            /\ cur_plan_id' = plan_id_cache[plan.cp.nodes.list[item_idx].plan.s]]_vars

\* create() is through the node entries of a validated plan whose two selectors
\* 'label:B' and 'disk:48GB' are two keys of the cache for the same id
C20_Witness ==
    /\ RanToEnd
    /\ CreationDone
    /\ DOMAIN plan_id_cache = {Sel_labelB, Sel_disk48GB}
    /\ plan_id_cache[Sel_labelB] = plan_id_cache[Sel_disk48GB]
    /\ calls # <<>>

(***************************************************************************)
(* Properties of load_from_json.                                           *)
(***************************************************************************)
\* load_from_json returned without reaching validate(): the file did not parse
ParseFailed == load_ret # "none" /\ ~vret.called

\* C21: load_from_json returns True only for a file that parsed and whose
\* validate() returned a true first element; it returns False when validate()
\* returned a false first element ('cluster-plan' missing, node list missing or
\* empty) and when the file is malformed JSON, and then no plan is stored and the
\* validated flag is as it was.
C21_LoadReturn ==
    /\ load_ret = "True" => plan # NoPlan /\ vret.called /\ vret.ret[1] = TRUE
    /\ (load_ret # "none" /\ vret.called /\ vret.exc = "none" /\ vret.ret[1] = FALSE)
          => load_ret = "False"
    /\ ParseFailed => load_ret = "False" /\ plan = NoPlan /\ ~validated

====
